---- MODULE Spec2Model ----
(***************************************************************************)
(* Model of the sarek-processing scripts: s01_generate_sarek_fastq_input   *)
(* (main, the FASTQ mate-pair scan collect_samples and the manifest writer *)
(* write_csv), the runs of external commands by s02_run_sarek_annotation,  *)
(* s03_filter_vcf_pass, s04_split_vep and s06_select_vep_cols, and         *)
(* get_bcftools_version of utils.                                          *)
(*                                                                         *)
(* A file name is a sequence of one-character strings, a path is the name  *)
(* of its directory, "/" and the file name.  Regular expressions of the    *)
(* source are operators that accept exactly the strings the expression     *)
(* accepts (file names hold no newline).                                   *)
(***************************************************************************)
EXTENDS Integers, Sequences, FiniteSets, TLC

(***************************************************************************)
(* Bounds of the model.                                                    *)
(***************************************************************************)
\* the largest number of files in the scanned tree
MaxFiles == 4
\* the longest list of pairs handed directly to write_csv
MaxPairs == 3
\* the largest number of VCF files in the input directory of s03 and s04
MaxVcfs == 2

(***************************************************************************)
(* Strings.                                                                *)
(***************************************************************************)
\* The characters of the model's file names in code-point order: Python
\* compares str values code point by code point.
Ascii ==
  << ".", "/", "0", "1", "2", "3", "4", "5", "6", "7", "8", "9",
     "A", "B", "C", "L", "R", "_",
     "a", "b", "d", "e", "f", "g", "l", "m", "p", "q", "r", "s", "t", "u",
     "v", "w", "x", "z" >>

Ord(c) == CHOOSE i \in 1..Len(Ascii) : Ascii[i] = c

Range(s) == {s[i] : i \in 1..Len(s)}

Min(S) == CHOOSE x \in S : \A y \in S : x <= y

\* str < str
RECURSIVE StrLess(_, _)
StrLess(s, t) ==
  IF t = <<>> THEN FALSE
  ELSE IF s = <<>> THEN TRUE
  ELSE IF s[1] = t[1] THEN StrLess(Tail(s), Tail(t))
  ELSE Ord(s[1]) < Ord(t[1])

\* tuple < tuple, for tuples of str of equal length
RECURSIVE TupleLess(_, _)
TupleLess(a, b) ==
  IF a = <<>> \/ b = <<>> THEN FALSE
  ELSE IF a[1] = b[1] THEN TupleLess(Tail(a), Tail(b))
  ELSE StrLess(a[1], b[1])

StartsWith(s, t) == Len(t) <= Len(s) /\ SubSeq(s, 1, Len(t)) = t

EndsWith(s, t) ==
  Len(t) <= Len(s) /\ SubSeq(s, Len(s) - Len(t) + 1, Len(s)) = t

\* str.replace(old, new): every non-overlapping occurrence, left to right
RECURSIVE Replace(_, _, _)
Replace(s, old, new) ==
  IF Len(s) < Len(old) THEN s
  ELSE IF StartsWith(s, old)
       THEN new \o Replace(SubSeq(s, Len(old) + 1, Len(s)), old, new)
       ELSE <<s[1]>> \o Replace(Tail(s), old, new)

\* os.path.join(root, f)
Join(root, f) == root \o <<"/">> \o f

(***************************************************************************)
(* The regular expressions of the configuration and of collect_samples.    *)
(***************************************************************************)
Digits == {"0", "1", "2", "3", "4", "5", "6", "7", "8", "9"}

\* \d+
IsDigits(s) == Len(s) >= 1 /\ \A i \in 1..Len(s) : s[i] \in Digits

\* \.f(ast)?q(\.gz)?
Exts ==
  { <<".", "f", "q">>, <<".", "f", "a", "s", "t", "q">>,
    <<".", "f", "q", ".", "g", "z">>,
    <<".", "f", "a", "s", "t", "q", ".", "g", "z">> }

\* (_\d+)?
IsOrdinal(o) == o = <<>> \/ (o[1] = "_" /\ IsDigits(Tail(o)))

\* (_\d+)?\.f(ast)?q(\.gz)?$
IsOrdinalExt(r) ==
  \E e \in Exts :
    EndsWith(r, e) /\ IsOrdinal(SubSeq(r, 1, Len(r) - Len(e)))

\* the mate tags of r1_patterns, in the order of the list; each pattern is
\* (.+)<tag>(_\d+)?\.f(ast)?q(\.gz)?$
r1_patterns == << <<"_", "1">>, <<"_", "R", "1">> >>

\* the (r1_tag, r2_tag) substitutions, zipped with r1_patterns
r2_subs ==
  << << <<"_", "1">>, <<"_", "2">> >>,
     << <<"_", "R", "1">>, <<"_", "R", "2">> >> >>

\* re.search(r1_patterns[k], f)
R1Search_Unanchored(k, f) ==
  LET tag == r1_patterns[k] IN
  \E i \in 2..Len(f), j \in 1..Len(f) :
    /\ StartsWith(SubSeq(f, i, Len(f)), tag)
    /\ IsOrdinalExt(SubSeq(f, i + Len(tag), j))
R1Search(k, f) ==
  LET tag == r1_patterns[k] IN
  \E i \in 2..Len(f) :
    /\ StartsWith(SubSeq(f, i, Len(f)), tag)
    /\ IsOrdinalExt(SubSeq(f, i + Len(tag), Len(f)))

\* the positions where re.search(r"_L(\d+)[._]", f) can match, with the end
\* of the digit run
LaneMatches(f) ==
  { m \in (1..Len(f)) \X (1..Len(f)) :
      /\ m[1] + 2 <= m[2]
      /\ m[2] + 1 <= Len(f)
      /\ f[m[1]] = "_"
      /\ f[m[1] + 1] = "L"
      /\ IsDigits(SubSeq(f, m[1] + 2, m[2]))
      /\ f[m[2] + 1] \in {".", "_"} }

\* lane_match.group(1) if lane_match else "1": the leftmost match
Lane_NoDelimiter(f) ==
  LET starts == {i \in 1..(Len(f) - 2) :
                   f[i] = "_" /\ f[i + 1] = "L" /\ f[i + 2] \in Digits}
  IN IF starts = {} THEN <<"1">>
     ELSE LET i == Min(starts)
              j == Min({k \in (i + 2)..Len(f) :
                          k = Len(f) \/ f[k + 1] \notin Digits})
          IN SubSeq(f, i + 2, j)
Lane(f) ==
  IF LaneMatches(f) = {} THEN <<"1">>
  ELSE LET i == Min({m[1] : m \in LaneMatches(f)})
           m == CHOOSE n \in LaneMatches(f) : n[1] = i
       IN SubSeq(f, i + 2, m[2])

\* (_R?1)(_00\d)?
IsTagOrd00(b) ==
  \E t \in {<<"_", "1">>, <<"_", "R", "1">>} :
    \/ b = t
    \/ /\ Len(b) = Len(t) + 4
       /\ StartsWith(b, t)
       /\ SubSeq(b, Len(t) + 1, Len(t) + 3) = <<"_", "0", "0">>
       /\ b[Len(t) + 4] \in Digits

\* (_L\d+)?(_R?1)(_00\d)?\.f(ast)?q(\.gz)?$ matched against the whole of r
IsNameSuffix(r) ==
  \E e \in Exts :
    /\ EndsWith(r, e)
    /\ LET b == SubSeq(r, 1, Len(r) - Len(e)) IN
       \/ IsTagOrd00(b)
       \/ \E j \in 3..Len(b) :
            /\ SubSeq(b, 1, 2) = <<"_", "L">>
            /\ IsDigits(SubSeq(b, 3, j))
            /\ IsTagOrd00(SubSeq(b, j + 1, Len(b)))

\* re.sub(r"(_L\d+)?(_R?1)(_00\d)?\.f(ast)?q(\.gz)?$", "", f): the leftmost
\* match runs to the end of f and is cut off
SampleName(f) ==
  LET starts == {i \in 1..Len(f) : IsNameSuffix(SubSeq(f, i, Len(f)))} IN
  IF starts = {} THEN f ELSE SubSeq(f, 1, Min(starts) - 1)

\* re.search(r"(_1(_\d+)?\.f(ast)?q)|(_R1(_\d+)?\.f(ast)?q)", f)
LooksLikeR1_Anchored(f) == \E k \in 1..Len(r1_patterns) : R1Search(k, f)
LooksLikeR1(f) ==
  \E i \in 1..Len(f), j \in 1..Len(f), k \in 1..2 :
    /\ i <= j
    /\ StartsWith(SubSeq(f, i, j), r1_patterns[k])
    /\ \E e \in {<<".", "f", "q">>, <<".", "f", "a", "s", "t", "q">>} :
         /\ EndsWith(SubSeq(f, i, j), e)
         /\ Len(r1_patterns[k]) + Len(e) <= j - i + 1
         /\ IsOrdinal(SubSeq(f, i + Len(r1_patterns[k]), j - Len(e)))

(***************************************************************************)
(* The scanned tree.  Files are named after the two conventions of the     *)
(* configuration: <sample>[_L<lane>]<tag>[<ordinal>]<extension>, the tag   *)
(* being _1/_2 (convention 1) or _R1/_R2 (convention 2).                   *)
(***************************************************************************)
Part(sample, lane, conv, ord, ext) ==
  [sample |-> sample, lane |-> lane, conv |-> conv, ord |-> ord, ext |-> ext]

PartA == Part(<<"s", "a", "m", "p", "l", "e", "A">>, <<"0", "0", "1">>, 2, <<"_", "0", "0", "1">>, <<".", "f", "a", "s", "t", "q", ".", "g", "z">>)
PartB == Part(<<"s", "a", "m", "p", "l", "e", "B">>, <<>>, 1, <<>>, <<".", "f", "q", ".", "g", "z">>)
PartC == Part(<<"s", "a", "m", "p", "l", "e", "C">>, <<>>, 2, <<>>, <<".", "f", "a", "s", "t", "q">>)
PartS10 == Part(<<"s", "_", "1", "0">>, <<>>, 1, <<>>, <<".", "f", "q">>)
PartS20 == Part(<<"s", "_", "2", "0">>, <<>>, 1, <<>>, <<".", "f", "q">>)
PartT == Part(<<"t">>, <<>>, 2, <<"_", "1", "2">>, <<".", "f", "q">>)
PartU2 == Part(<<"u">>, <<"2">>, 1, <<>>, <<".", "f", "q">>)
PartU10 == Part(<<"u">>, <<"1", "0">>, 1, <<>>, <<".", "f", "q">>)
PartW == Part(<<"w", "_", "L", "3", "x">>, <<>>, 1, <<>>, <<".", "f", "q">>)
\* x_R1_1.fq reads as sample x_R1 with tag _1, and as sample x with tag _R1
\* and ordinal _1; x_R1_2.fq is the second mate of the former and, as sample x
\* with ordinal _2, a first mate itself; x_R2_1.fq is the second mate of the
\* latter reading of x_R1_1.fq and the first mate of sample x_R2
PartX1 == Part(<<"x", "_", "R", "1">>, <<>>, 1, <<>>, <<".", "f", "q">>)
PartX2 == Part(<<"x", "_", "R", "2">>, <<>>, 1, <<>>, <<".", "f", "q">>)
PartXR1 == Part(<<"x">>, <<>>, 2, <<"_", "1">>, <<".", "f", "q">>)
PartXR2 == Part(<<"x">>, <<>>, 2, <<"_", "2">>, <<".", "f", "q">>)

Parts ==
  { PartA, PartB, PartC, PartS10, PartS20, PartT, PartU2, PartU10, PartW,
    PartX1, PartX2, PartXR1, PartXR2 }

MateTag(conv, mate) ==
  IF conv = 1 THEN (IF mate = 1 THEN <<"_", "1">> ELSE <<"_", "2">>)
  ELSE (IF mate = 1 THEN <<"_", "R", "1">> ELSE <<"_", "R", "2">>)

LaneToken(lane) == IF lane = <<>> THEN <<>> ELSE <<"_", "L">> \o lane

FileName(p, mate) ==
  p.sample \o LaneToken(p.lane) \o MateTag(p.conv, mate) \o p.ord \o p.ext

\* a file that is no read file, and a bzip2 read file (the patterns know gzip
\* only)
Unrelated == <<"x", ".", "t", "x", "t">>
Bzip2Read == <<"v", "_", "1", ".", "f", "q", ".", "b", "z", "2">>

\* the directories a tree is drawn from: the file names of one naming
\* scenario each
Corpus ==
  << { FileName(PartA, 1), FileName(PartA, 2),
       FileName(PartB, 1), FileName(PartB, 2) },
     { FileName(PartC, 1), FileName(PartW, 1), Bzip2Read, Unrelated },
     { FileName(PartS10, 1), FileName(PartS10, 2),
       FileName(PartS20, 1), FileName(PartS20, 2) },
     { FileName(PartT, 1), FileName(PartT, 2),
       FileName(PartW, 1), FileName(PartW, 2) },
     { FileName(PartU2, 1), FileName(PartU2, 2),
       FileName(PartU10, 1), FileName(PartU10, 2) },
     { FileName(PartXR1, 1), FileName(PartXR1, 2),
       FileName(PartX1, 2), FileName(PartXR2, 2) } >>

\* fastq_dir and two subdirectories of it
RootDir == <<"d">>
SubDir == <<"d", "/", "e">>
SubDir2 == <<"d", "/", "g">>
Dirs == {RootDir, SubDir, SubDir2}

\* the files a tree is drawn from: the names of one scenario in fastq_dir
\* and in a subdirectory, or one pair of names in the two subdirectories
Layouts ==
  { {RootDir, SubDir} \X Corpus[c] : c \in 1..Len(Corpus) }
    \cup { {SubDir, SubDir2} \X {FileName(PartB, 1), FileName(PartB, 2)} }

Trees ==
  UNION { {t \in SUBSET l : Cardinality(t) <= MaxFiles} : l \in Layouts }

(***************************************************************************)
(* State.                                                                  *)
(***************************************************************************)
VARIABLES
  tree,           \* the files under fastq_dir: <<directory, file name>>
  pc,             \* the statement of main that runs next
  todo,           \* the files os.walk has not yet yielded
  samples,        \* collect_samples: the list of pairs
  unmatched_r1,   \* collect_samples: the list of orphan first mates
  root,           \* collect_samples: the loop variables root and f,
  f,
  matched,        \*   matched
  r2_file,        \*   and r2_file (kept from the last file that matched)
  warnings,       \* the warnings logged by collect_samples, in order
  manifest,       \* the rows of the CSV file; <<>> while it does not exist
  run,            \* 1 in the first run of the script, 2 in a second run
  prev_manifest,  \* the CSV file as the first run left it
  script,         \* the script that is run
  inp,            \* its arguments and what it finds in its environment
  fs,             \* the directories and files it made that exist
  exit_code,      \* the exit status of the process; "" while it runs
  cmds,           \* the external commands invoked, in order
  errors,         \* the failures logged, in order
  counts,         \* success_count and fail_count of the loop over the VCFs
  n_done,         \* the number of VCFs the loop is through with
  bcftools_version, \* what get_bcftools_version returned; <<>> before
  out_tsv         \* the lines of s6_select_vep_cols.tsv; <<>> while it does
                  \* not exist

\* the variables of collect_samples and write_csv
s01vars ==
  << tree, todo, samples, unmatched_r1, root, f, matched, r2_file,
     warnings, manifest, run, prev_manifest >>

\* the variables of the scripts that run external commands
cmdvars == << cmds, errors, counts, n_done >>

\* the variables of get_bcftools_version and select_columns
outvars == << bcftools_version, out_tsv >>

vars == << pc, script, inp, fs, exit_code, s01vars, cmdvars, outvars >>

FilePaths == {Join(e[1], e[2]) : e \in tree}

\* os.path.exists(path)
Exists_AnyDir(path) ==
  \E e \in tree : EndsWith(path, <<"/">> \o e[2])
Exists(path) == path \in FilePaths \/ path \in Dirs

(***************************************************************************)
(* write_csv.                                                              *)
(***************************************************************************)
\* sorted(S) for a set of str
RECURSIVE SortedSet(_)
SortedSet(S) ==
  IF S = {} THEN <<>>
  ELSE LET m == CHOOSE x \in S : \A y \in S : y = x \/ StrLess(x, y)
       IN <<m>> \o SortedSet(S \ {m})

\* list.sort on tuples: x goes after the elements that are not greater
RECURSIVE Insert(_, _)
Insert(s, x) ==
  IF s = <<>> THEN <<x>>
  ELSE IF TupleLess(x, s[1]) THEN <<x>> \o s
  ELSE <<s[1]>> \o Insert(Tail(s), x)

\* sorted(samples)
Sorted_Unsorted(s) == s
RECURSIVE Sorted_BySample(_)
Sorted_BySample(s) ==
  IF s = <<>> THEN <<>>
  ELSE LET t == Sorted_BySample(SubSeq(s, 1, Len(s) - 1))
           x == s[Len(s)]
           k == Cardinality({i \in 1..Len(t) : ~StrLess(x[1], t[i][1])})
       IN SubSeq(t, 1, k) \o <<x>> \o SubSeq(t, k + 1, Len(t))
RECURSIVE Sorted(_)
Sorted(s) ==
  IF s = <<>> THEN <<>>
  ELSE Insert(Sorted(SubSeq(s, 1, Len(s) - 1)), s[Len(s)])

\* {s: i+1 for i, s in enumerate(sorted({x[0] for x in samples}))}
PatientIds_ByAppearance(smp) ==
  LET names == {smp[i][1] : i \in 1..Len(smp)}
      first(n) == Min({i \in 1..Len(smp) : smp[i][1] = n})
  IN [n \in names |-> Cardinality({m \in names : first(m) <= first(n)})]
PatientIds(smp) ==
  LET names == SortedSet({smp[i][1] : i \in 1..Len(smp)})
  IN [n \in Range(names) |-> CHOOSE i \in 1..Len(names) : names[i] = n]

Header == <<"patient", "sample", "lane", "fastq_1", "fastq_2">>

\* the rows write_csv writes: the header, then a row for each sorted pair
Rows_OnePerSample(smp) ==
  LET ids == PatientIds(smp)
      srt == Sorted(smp)
      keep == {i \in 1..Len(srt) : \A j \in 1..(i - 1) : srt[j][1] # srt[i][1]}
      RECURSIVE Pick(_)
      Pick(i) == IF i > Len(srt) THEN <<>>
                 ELSE (IF i \in keep THEN << <<ids[srt[i][1]]>> \o srt[i] >>
                       ELSE <<>>) \o Pick(i + 1)
  IN <<Header>> \o Pick(1)
Rows(smp) ==
  LET ids == PatientIds(smp)
      srt == Sorted(smp)
  IN <<Header>> \o [i \in 1..Len(srt) |-> <<ids[srt[i][1]]>> \o srt[i]]

(***************************************************************************)
(* The run of s01.                                                         *)
(***************************************************************************)
\* the inputs of a script that the script at hand does not look at
DefaultInput ==
  [ dir |-> "readable", env |-> "none", config |-> "parsed", keys |-> {},
    shapes |-> TRUE, input_file |-> TRUE, version |-> "system",
    vcfs |-> <<>>, keep_temp |-> FALSE, fields |-> <<>> ]

\* no external command has been run
NoCmds ==
  /\ cmds = <<>>
  /\ errors = <<>>
  /\ counts = <<0, 0>>
  /\ n_done = 0

\* get_bcftools_version has not returned and the output of s06 does not
\* exist
NoOutput == bcftools_version = <<>> /\ out_tsv = <<>>

\* fastq_dir is a directory whose files can be listed, a directory that
\* cannot be read, or no directory; output_dir, its logs directory and the
\* log file may be there from an earlier run
Init ==
  /\ script = "s01"
  /\ \/ /\ inp = DefaultInput
        /\ tree \in Trees
     \/ /\ inp = [DefaultInput EXCEPT !.dir = "unreadable"]
        /\ tree \in {t \in Trees : Cardinality(t) <= 1}
     \/ /\ inp = [DefaultInput EXCEPT !.dir = "missing"]
        /\ tree = {}
  /\ fs \in {{}, {"output_dir"}, {"output_dir", "log_dir", "log_file"}}
  /\ exit_code = ""
  /\ NoCmds
  /\ NoOutput
  /\ pc = "main"
  /\ todo = tree
  /\ samples = <<>>
  /\ unmatched_r1 = <<>>
  /\ root = <<>>
  /\ f = <<>>
  /\ matched = FALSE
  /\ r2_file = <<>>
  /\ warnings = <<>>
  /\ manifest = <<>>
  /\ run = 1
  /\ prev_manifest = <<>>

\* if not fastq_dir.is_dir(): sys.exit(1)
CheckFastqDir_AfterMkdir ==
  /\ script = "s01"
  /\ pc = "main"
  /\ fs' = fs \cup {"output_dir"}
  /\ IF inp.dir = "missing"
     THEN pc' = "exit" /\ exit_code' = "1"
     ELSE pc' = "setup" /\ UNCHANGED exit_code
  /\ UNCHANGED <<script, outvars, inp, s01vars, cmdvars>>
CheckFastqDir ==
  /\ script = "s01"
  /\ pc = "main"
  /\ IF inp.dir = "missing"
     THEN pc' = "exit" /\ exit_code' = "1"
     ELSE pc' = "setup" /\ UNCHANGED exit_code
  /\ UNCHANGED <<script, outvars, inp, fs, s01vars, cmdvars>>

\* output_dir and log_dir are made where missing, the log file is opened
\* for appending, and collect_samples starts os.walk, which yields nothing
\* for a top directory it cannot list (onerror is None)
Setup ==
  /\ pc = "setup"
  /\ fs' = fs \cup {"output_dir", "log_dir", "log_file"}
  /\ todo' = IF inp.dir = "readable" THEN tree ELSE {}
  /\ pc' = "collect_samples"
  /\ UNCHANGED <<script, outvars, inp, exit_code, cmdvars, tree, samples,
                 unmatched_r1, root, f, matched, r2_file, warnings, manifest,
                 run, prev_manifest>>

\* the directories os.walk may be yielding: the directory of the last file
\* while it has files left; else fastq_dir, which comes first (the walk is
\* top-down); else any subdirectory, in the listing order of the file
\* system, which is arbitrary, as is the order of the files of a directory
WalkRoots ==
  IF \E e \in todo : e[1] = root THEN {root}
  ELSE IF \E e \in todo : e[1] = RootDir THEN {RootDir}
  ELSE {e[1] : e \in todo}

\* "for (r1_pat, _), (r2_sub, r2_rep) in zip(r1_patterns, r2_subs)" with its
\* break: of the patterns ks that match, the first one is taken
FirstMatch_Last(ks) == CHOOSE k \in ks : \A j \in ks : j <= k
FirstMatch(ks) == Min(ks)

\* one iteration of "for f in files": the file e is classified
ScanFile(e) ==
  /\ pc = "collect_samples"
  /\ e \in todo
  /\ e[1] \in WalkRoots
  /\ todo' = todo \ {e}
  /\ root' = e[1]
  /\ f' = e[2]
  /\ LET ks == {k \in 1..Len(r1_patterns) : R1Search(k, e[2])} IN
     IF ks = {}
     THEN /\ matched' = FALSE
          /\ warnings' = IF LooksLikeR1(e[2])
                         THEN Append(warnings, <<"looks like R1", e[2]>>)
                         ELSE warnings
          /\ UNCHANGED <<r2_file, samples, unmatched_r1>>
     ELSE LET k == FirstMatch(ks)
              r2f == Replace(e[2], r2_subs[k][1], r2_subs[k][2])
              r2_path == Join(e[1], r2f)
          IN /\ matched' = TRUE
             /\ r2_file' = r2f
             /\ IF Exists(r2_path)
                THEN /\ samples' =
                          Append(samples,
                                 <<SampleName(e[2]), Lane(e[2]),
                                   Join(e[1], e[2]), r2_path>>)
                     /\ UNCHANGED <<unmatched_r1, warnings>>
                ELSE /\ unmatched_r1' = Append(unmatched_r1, e[2])
                     /\ warnings' =
                          Append(warnings, <<"no matching R2", e[2]>>)
                     /\ UNCHANGED samples
  /\ UNCHANGED <<tree, pc, manifest, run, prev_manifest, script, outvars, inp,
                 fs, exit_code, cmdvars>>

\* os.walk is exhausted: collect_samples returns
Return_Early ==
  /\ pc = "collect_samples"
  /\ pc' = "write_csv"
  /\ UNCHANGED <<script, outvars, inp, fs, exit_code, s01vars, cmdvars>>
Return ==
  /\ pc = "collect_samples"
  /\ todo = {}
  /\ pc' = "write_csv"
  /\ UNCHANGED <<script, outvars, inp, fs, exit_code, s01vars, cmdvars>>

\* write_csv(samples, output_file); the file is opened with mode "w"
WriteCsv ==
  /\ pc = "write_csv"
  /\ manifest' = Rows(samples)
  /\ pc' = "totals"
  /\ UNCHANGED <<tree, todo, samples, unmatched_r1, root, f, matched, r2_file,
                 warnings, run, prev_manifest, script, outvars, inp, fs,
                 exit_code, cmdvars>>

\* the totals are logged, with a warning for each unmatched first mate, and
\* main returns
LogTotals ==
  /\ pc = "totals"
  /\ warnings' = warnings \o [k \in 1..Len(unmatched_r1) |->
                                <<"Unmatched R1 file", unmatched_r1[k]>>]
  /\ pc' = "end"
  /\ exit_code' = "0"
  /\ UNCHANGED <<tree, todo, samples, unmatched_r1, root, f, matched, r2_file,
                 manifest, run, prev_manifest, script, outvars, inp, fs,
                 cmdvars>>

\* the script is started again on the unchanged tree; the CSV file of the
\* first run is still there
Rerun ==
  /\ script = "s01"
  /\ pc = "end"
  /\ run = 1
  /\ run' = 2
  /\ prev_manifest' = manifest
  /\ pc' = "main"
  /\ exit_code' = ""
  /\ todo' = tree
  /\ samples' = <<>>
  /\ unmatched_r1' = <<>>
  /\ root' = <<>>
  /\ f' = <<>>
  /\ matched' = FALSE
  /\ r2_file' = <<>>
  /\ warnings' = <<>>
  /\ UNCHANGED <<tree, manifest, script, outvars, inp, fs, cmdvars>>

Next ==
  \/ CheckFastqDir
  \/ Setup
  \/ \E e \in tree : ScanFile(e)
  \/ Return
  \/ WriteCsv
  \/ LogTotals
  \/ Rerun

Spec == Init /\ [][Next]_vars

(***************************************************************************)
(* write_csv on its own, called with any list of pairs.                    *)
(***************************************************************************)
CsvNames == {<<"a">>, <<"a", "b">>, <<"b">>}
CsvLanes == {<<"2">>, <<"1", "0">>}
CsvReads == {<<"d", "/", "p">>, <<"d", "/", "q">>}
CsvPairs == {<<n, l, r, <<"d", "/", "m">>>> : n \in CsvNames, l \in CsvLanes, r \in CsvReads}

InitCsv ==
  /\ script = "s01"
  /\ inp = DefaultInput
  /\ fs = {"output_dir", "log_dir", "log_file"}
  /\ exit_code = ""
  /\ NoCmds
  /\ NoOutput
  /\ tree = {}
  /\ pc = "write_csv"
  /\ todo = {}
  /\ samples \in UNION {[1..n -> CsvPairs] : n \in 0..MaxPairs}
  /\ unmatched_r1 = <<>>
  /\ root = <<>>
  /\ f = <<>>
  /\ matched = FALSE
  /\ r2_file = <<>>
  /\ warnings = <<>>
  /\ manifest = <<>>
  /\ run = 1
  /\ prev_manifest = <<>>

NextCsv == WriteCsv \/ LogTotals

SpecCsv == InitCsv /\ [][NextCsv]_vars

(***************************************************************************)
(* The scripts that run external commands.  run_command(cmd) runs the      *)
(* command and tells whether it ended with status 0; whether it does is    *)
(* not in the hands of the script.  The programs named on the command      *)
(* lines (conda, nextflow) are installed.                                  *)
(***************************************************************************)
\* the record kept of one invocation: the tool, the number of the input VCF
\* it was run for (0 when there is none), whether the command line starts
\* with "conda run -n <env>", and whether it ended with status 0
Cmd(tool, n, wrapped, ok) ==
  [tool |-> tool, input |-> n, conda_run |-> wrapped, ok |-> ok]

\* sys.exit(1), and the uncaught exception that ends the process with
\* status 1 as well
Exit1 ==
  /\ pc' = "exit"
  /\ exit_code' = "1"

\* output_dir and log_dir are made where missing and the log file is opened
\* for appending
LogFiles == {"output_dir", "log_dir", "log_file"}

\* the scripts other than s01 scan no tree and write no manifest
NoScan ==
  /\ tree = {} /\ todo = {} /\ samples = <<>> /\ unmatched_r1 = <<>>
  /\ root = <<>> /\ f = <<>> /\ matched = FALSE /\ r2_file = <<>>
  /\ warnings = <<>> /\ manifest = <<>> /\ run = 1 /\ prev_manifest = <<>>

\* the files a glob of the input directory may give, in any order: gzipped
\* VCFs, plain VCFs and files the pattern matches by accident
VcfLists == UNION {[1..n -> {"vcf.gz", "vcf", "other"}] : n \in 0..MaxVcfs}

(***************************************************************************)
(* s02_run_sarek_annotation.                                               *)
(***************************************************************************)
required ==
  { "vep_cache", "fasta", "fasta_fai", "dict", "dbnsfp", "dbnsfp_tbi",
    "dbnsfp_fields", "vep_plugins" }

\* the config file does not parse, or it parses to an object with some of
\* the required keys, whose values have the shapes build_nextflow_command
\* takes them to have (vep_plugins an object, dbnsfp_fields a list of
\* strings, the others strings) or not
InitS02 ==
  /\ script = "s02"
  /\ \E c \in {"unparsable", "parsed"}, ks \in SUBSET required,
        sh \in BOOLEAN, inf \in BOOLEAN, e \in {"none", "exists", "missing"} :
       /\ c = "unparsable" => (ks = {} /\ sh)
       /\ inp = [DefaultInput EXCEPT !.config = c, !.keys = ks, !.shapes = sh,
                                     !.input_file = inf, !.env = e]
  /\ fs = {}
  /\ exit_code = ""
  /\ NoCmds
  /\ NoOutput
  /\ pc = "main"
  /\ NoScan

\* the directories and the log file are made before anything is checked
S02Prepare ==
  /\ script = "s02"
  /\ pc = "main"
  /\ fs' = fs \cup LogFiles
  /\ pc' = "load_config"
  /\ UNCHANGED <<script, outvars, inp, exit_code, s01vars, cmdvars>>

\* json.load(f) in try/except Exception
S02LoadConfig ==
  /\ script = "s02"
  /\ pc = "load_config"
  /\ IF inp.config = "unparsable"
     THEN /\ errors' = Append(errors, <<"config", 0>>)
          /\ Exit1
     ELSE /\ pc' = "check_keys"
          /\ UNCHANGED <<errors, exit_code>>
  /\ UNCHANGED <<script, outvars, inp, fs, s01vars, cmds, counts, n_done>>

\* missing = [k for k in required if k not in config]
S02CheckKeys ==
  /\ script = "s02"
  /\ pc = "check_keys"
  /\ IF required \ inp.keys # {}
     THEN /\ errors' = Append(errors, <<"keys", 0>>)
          /\ Exit1
     ELSE /\ pc' = "check_input"
          /\ UNCHANGED <<errors, exit_code>>
  /\ UNCHANGED <<script, outvars, inp, fs, s01vars, cmds, counts, n_done>>

\* if not input_file.is_file()
S02CheckInput_Skipped ==
  /\ script = "s02"
  /\ pc = "check_input"
  /\ pc' = "check_env"
  /\ UNCHANGED <<script, outvars, inp, fs, exit_code, s01vars, cmdvars>>
S02CheckInput ==
  /\ script = "s02"
  /\ pc = "check_input"
  /\ IF ~inp.input_file
     THEN /\ errors' = Append(errors, <<"input", 0>>)
          /\ Exit1
     ELSE /\ pc' = "check_env"
          /\ UNCHANGED <<errors, exit_code>>
  /\ UNCHANGED <<script, outvars, inp, fs, s01vars, cmds, counts, n_done>>

\* if conda_env and not check_conda_env(conda_env)
S02CheckEnv ==
  /\ script = "s02"
  /\ pc = "check_env"
  /\ IF inp.env = "missing"
     THEN /\ errors' = Append(errors, <<"env", 0>>)
          /\ Exit1
     ELSE /\ pc' = "temp_config"
          /\ UNCHANGED <<errors, exit_code>>
  /\ UNCHANGED <<script, outvars, inp, fs, s01vars, cmds, counts, n_done>>

\* tempfile.NamedTemporaryFile(mode="w", delete=False)
S02TempConfig ==
  /\ script = "s02"
  /\ pc = "temp_config"
  /\ fs' = fs \cup {"tmp_config"}
  /\ pc' = "build"
  /\ UNCHANGED <<script, outvars, inp, exit_code, s01vars, cmdvars>>

\* build_nextflow_command: config["vep_plugins"].items() and
\* ",".join(config["dbnsfp_fields"]) raise on values of another shape, and
\* nothing catches the exception
S02Build ==
  /\ script = "s02"
  /\ pc = "build"
  /\ IF inp.shapes
     THEN pc' = "run" /\ UNCHANGED exit_code
     ELSE Exit1
  /\ UNCHANGED <<script, outvars, inp, fs, s01vars, cmdvars>>

\* ok = run_command(cmd); on failure the temporary config is left and the
\* script exits with status 1
S02Run_RetryOnce ==
  /\ script = "s02"
  /\ pc = "run"
  /\ \E ok \in BOOLEAN :
       /\ cmds' = Append(cmds, Cmd("nextflow", 0, inp.env = "exists", ok))
       /\ IF ok
          THEN /\ pc' = "unlink"
               /\ UNCHANGED <<errors, exit_code>>
          ELSE /\ errors' = Append(errors, <<"nextflow", 0>>)
               /\ IF cmds = <<>>
                  THEN UNCHANGED <<pc, exit_code>>
                  ELSE Exit1
  /\ UNCHANGED <<script, outvars, inp, fs, s01vars, counts, n_done>>
S02Run ==
  /\ script = "s02"
  /\ pc = "run"
  /\ \E ok \in BOOLEAN :
       /\ cmds' = Append(cmds, Cmd("nextflow", 0, inp.env = "exists", ok))
       /\ IF ok
          THEN /\ pc' = "unlink"
               /\ UNCHANGED <<errors, exit_code>>
          ELSE /\ errors' = Append(errors, <<"nextflow", 0>>)
               /\ Exit1
  /\ UNCHANGED <<script, outvars, inp, fs, s01vars, counts, n_done>>

\* os.unlink(nextflow_config_file), and main returns
S02Unlink_Skipped ==
  /\ script = "s02"
  /\ pc = "unlink"
  /\ pc' = "end"
  /\ exit_code' = "0"
  /\ UNCHANGED <<script, outvars, inp, fs, s01vars, cmdvars>>
S02Unlink ==
  /\ script = "s02"
  /\ pc = "unlink"
  /\ fs' = fs \ {"tmp_config"}
  /\ pc' = "end"
  /\ exit_code' = "0"
  /\ UNCHANGED <<script, outvars, inp, s01vars, cmdvars>>

NextS02 ==
  \/ S02Prepare
  \/ S02LoadConfig
  \/ S02CheckKeys
  \/ S02CheckInput
  \/ S02CheckEnv
  \/ S02TempConfig
  \/ S02Build
  \/ S02Run
  \/ S02Unlink

(***************************************************************************)
(* s03_filter_vcf_pass.                                                    *)
(***************************************************************************)
InitS03 ==
  /\ script = "s03"
  /\ \E d \in {"missing", "readable"}, e \in {"none", "exists", "missing"},
        ver \in {"unknown", "invalid", "valid"}, v \in VcfLists :
       /\ d = "missing" => v = <<>>
       /\ e # "exists" => ver = "valid"
       /\ inp = [DefaultInput EXCEPT
                   !.dir = d, !.env = e, !.vcfs = v,
                   !.version = IF e = "exists" THEN ver ELSE "system"]
  /\ fs = {}
  /\ exit_code = ""
  /\ NoCmds
  /\ NoOutput
  /\ pc = "main"
  /\ NoScan

\* if not input_dir.is_dir(): sys.exit(1); else output_dir is made
S03CheckInputDir ==
  /\ script = "s03"
  /\ pc = "main"
  /\ IF inp.dir = "missing"
     THEN Exit1 /\ UNCHANGED fs
     ELSE /\ fs' = fs \cup {"output_dir"}
          /\ pc' = "check_env"
          /\ UNCHANGED exit_code
  /\ UNCHANGED <<script, outvars, inp, s01vars, cmdvars>>

\* if conda_env and not check_conda_env(conda_env): sys.exit(1); else the
\* version is asked of a named environment and logging is set up
S03CheckEnv ==
  /\ script = "s03"
  /\ pc = "check_env"
  /\ IF inp.env = "missing"
     THEN Exit1 /\ UNCHANGED fs
     ELSE /\ fs' = fs \cup LogFiles
          /\ pc' = "collect"
          /\ UNCHANGED exit_code
  /\ UNCHANGED <<script, outvars, inp, s01vars, cmdvars>>

\* vcfs = list(input_dir.glob("*.vcf*")); if not vcfs: sys.exit(1)
S03Collect ==
  /\ script = "s03"
  /\ pc = "collect"
  /\ IF inp.vcfs = <<>>
     THEN /\ errors' = Append(errors, <<"no VCF", 0>>)
          /\ Exit1
     ELSE /\ pc' = "loop"
          /\ UNCHANGED <<errors, exit_code>>
  /\ UNCHANGED <<script, outvars, inp, fs, s01vars, cmds, counts, n_done>>

\* the output path of an input VCF
S03Output(kind) ==
  IF kind = "vcf.gz" THEN "s3_filter_PASS.vcf.gz" ELSE "s3_filter_PASS.vcf"

\* a file that ends neither in .vcf.gz nor in .vcf is skipped
S03Skip ==
  /\ script = "s03"
  /\ pc = "loop"
  /\ n_done < Len(inp.vcfs)
  /\ inp.vcfs[n_done + 1] = "other"
  /\ n_done' = n_done + 1
  /\ UNCHANGED <<pc, script, outvars, inp, fs, exit_code, s01vars, cmds,
                 errors, counts>>

\* filter_vcf_bcftools, bcftools view: the command line always starts with
\* "conda", "run", "-n", conda_env; with conda_env None subprocess.run
\* raises TypeError before anything is run, and nothing catches it
S03View_IndexAlways ==
  /\ script = "s03"
  /\ pc = "loop"
  /\ n_done < Len(inp.vcfs)
  /\ inp.vcfs[n_done + 1] # "other"
  /\ IF inp.env = "none"
     THEN /\ Exit1
          /\ UNCHANGED <<fs, cmds, errors, counts, n_done>>
     ELSE \E ok \in BOOLEAN :
            /\ cmds' = Append(cmds, Cmd("view", n_done + 1, TRUE, ok))
            /\ UNCHANGED exit_code
            /\ IF ~ok
               THEN /\ errors' = Append(errors, <<"view", n_done + 1>>)
                    /\ counts' = <<counts[1], counts[2] + 1>>
                    /\ n_done' = n_done + 1
                    /\ UNCHANGED <<pc, fs>>
               ELSE /\ fs' = fs \cup {S03Output(inp.vcfs[n_done + 1])}
                    /\ UNCHANGED errors
                    /\ IF inp.vcfs[n_done + 1] # "other"
                       THEN /\ pc' = "index"
                            /\ UNCHANGED <<counts, n_done>>
                       ELSE /\ counts' = <<counts[1] + 1, counts[2]>>
                            /\ n_done' = n_done + 1
                            /\ UNCHANGED pc
  /\ UNCHANGED <<script, outvars, inp, s01vars>>
S03View ==
  /\ script = "s03"
  /\ pc = "loop"
  /\ n_done < Len(inp.vcfs)
  /\ inp.vcfs[n_done + 1] # "other"
  /\ IF inp.env = "none"
     THEN /\ Exit1
          /\ UNCHANGED <<fs, cmds, errors, counts, n_done>>
     ELSE \E ok \in BOOLEAN :
            /\ cmds' = Append(cmds, Cmd("view", n_done + 1, TRUE, ok))
            /\ UNCHANGED exit_code
            /\ IF ~ok
               THEN /\ errors' = Append(errors, <<"view", n_done + 1>>)
                    /\ counts' = <<counts[1], counts[2] + 1>>
                    /\ n_done' = n_done + 1
                    /\ UNCHANGED <<pc, fs>>
               ELSE /\ fs' = fs \cup {S03Output(inp.vcfs[n_done + 1])}
                    /\ UNCHANGED errors
                    /\ IF inp.vcfs[n_done + 1] = "vcf.gz"
                       THEN /\ pc' = "index"
                            /\ UNCHANGED <<counts, n_done>>
                       ELSE /\ counts' = <<counts[1] + 1, counts[2]>>
                            /\ n_done' = n_done + 1
                            /\ UNCHANGED pc
  /\ UNCHANGED <<script, outvars, inp, s01vars>>

\* filter_vcf_bcftools, bcftools index -t of a gzipped output
S03Index ==
  /\ script = "s03"
  /\ pc = "index"
  /\ \E ok \in BOOLEAN :
       /\ cmds' = Append(cmds, Cmd("index", n_done + 1, TRUE, ok))
       /\ IF ok
          THEN /\ fs' = fs \cup {"s3_filter_PASS.vcf.gz.tbi"}
               /\ counts' = <<counts[1] + 1, counts[2]>>
               /\ UNCHANGED errors
          ELSE /\ errors' = Append(errors, <<"index", n_done + 1>>)
               /\ counts' = <<counts[1], counts[2] + 1>>
               /\ UNCHANGED fs
  /\ n_done' = n_done + 1
  /\ pc' = "loop"
  /\ UNCHANGED <<script, outvars, inp, exit_code, s01vars>>

\* the loop is through: the totals are logged and main returns
S03Finish ==
  /\ script = "s03"
  /\ pc = "loop"
  /\ n_done = Len(inp.vcfs)
  /\ pc' = "end"
  /\ exit_code' = "0"
  /\ UNCHANGED <<script, outvars, inp, fs, s01vars, cmdvars>>

NextS03 ==
  \/ S03CheckInputDir
  \/ S03CheckEnv
  \/ S03Collect
  \/ S03Skip
  \/ S03View
  \/ S03Index
  \/ S03Finish

(***************************************************************************)
(* s04_split_vep.                                                          *)
(***************************************************************************)
\* tmpdir, tmp_split and tmp_no_csq of split_vep_pipeline
TempFiles ==
  {"tmp_splitvep", "splitvep_firstsplit.vcf.gz", "splitvep_noCSQ.vcf.gz"}

\* the commands of split_vep_pipeline in their order
Steps_CanonicalFirst == <<"+split-vep", "view", "annotate", "index">>
Steps == <<"+split-vep", "annotate", "view", "index">>

\* the position in the pipeline of the command at pc
StepOf(p) == CHOOSE k \in 1..Len(Steps) : Steps[k] = p

\* the output path of an input VCF
S04Output(kind) ==
  IF kind = "vcf.gz" THEN "s4_split_vep.vcf.gz" ELSE "s4_split_vep.vcf"

\* the file a command of the pipeline writes for an input VCF
StepFile(tool, kind) ==
  IF tool = "+split-vep" THEN "splitvep_firstsplit.vcf.gz"
  ELSE IF tool = "annotate" THEN "splitvep_noCSQ.vcf.gz"
  ELSE IF tool = "view" THEN S04Output(kind)
  ELSE IF kind = "vcf.gz" THEN "s4_split_vep.vcf.gz.tbi"
  ELSE "s4_split_vep.vcf.tbi"

\* conda_env = str(args.env) is "None" when -e is not given, the columns
\* config loads or not, get_bcftools_version(conda_env) gives the version,
\* "unknown" or "invalid"
InitS04 ==
  /\ script = "s04"
  /\ \E d \in {"missing", "readable"}, e \in {"none", "exists", "missing"},
        c \in {"unparsable", "parsed"},
        ver \in {"unknown", "invalid", "valid"}, k \in BOOLEAN,
        v \in VcfLists :
       /\ d = "missing" => v = <<>>
       /\ (e # "exists" \/ c # "parsed") => (ver = "unknown" /\ v = <<>> /\ ~k)
       /\ inp = [DefaultInput EXCEPT
                   !.dir = d, !.env = e, !.config = c, !.version = ver,
                   !.keep_temp = k, !.vcfs = v]
  /\ fs = {}
  /\ exit_code = ""
  /\ NoCmds
  /\ NoOutput
  /\ pc = "main"
  /\ NoScan

\* if not input_dir.is_dir(): sys.exit(1); output_dir is input_dir
S04CheckInputDir ==
  /\ script = "s04"
  /\ pc = "main"
  /\ IF inp.dir = "missing"
     THEN Exit1 /\ UNCHANGED fs
     ELSE /\ fs' = fs \cup {"output_dir"}
          /\ pc' = "check_env"
          /\ UNCHANGED exit_code
  /\ UNCHANGED <<script, outvars, inp, s01vars, cmdvars>>

\* if not check_conda_env(conda_env): sys.exit(1)
S04CheckEnv ==
  /\ script = "s04"
  /\ pc = "check_env"
  /\ IF inp.env # "exists"
     THEN Exit1
     ELSE pc' = "load_config" /\ UNCHANGED exit_code
  /\ UNCHANGED <<script, outvars, inp, fs, s01vars, cmdvars>>

\* the config file is no file, or load_config exits, or gives the columns;
\* then the version is asked and logged, and logging is set up
S04LoadConfig ==
  /\ script = "s04"
  /\ pc = "load_config"
  /\ IF inp.config # "parsed"
     THEN Exit1 /\ UNCHANGED fs
     ELSE /\ fs' = fs \cup LogFiles
          /\ pc' = "collect"
          /\ UNCHANGED exit_code
  /\ UNCHANGED <<script, outvars, inp, s01vars, cmdvars>>

\* vcfs = [f for f in input_dir.glob("*PASS.vcf*") ...]; if not vcfs:
\* sys.exit(1)
S04Collect ==
  /\ script = "s04"
  /\ pc = "collect"
  /\ IF inp.vcfs = <<>>
     THEN /\ errors' = Append(errors, <<"no VCF", 0>>)
          /\ Exit1
     ELSE /\ pc' = "loop"
          /\ UNCHANGED <<errors, exit_code>>
  /\ UNCHANGED <<script, outvars, inp, fs, s01vars, cmds, counts, n_done>>

\* a file that ends neither in PASS.vcf.gz nor in PASS.vcf is skipped
S04Skip ==
  /\ script = "s04"
  /\ pc = "loop"
  /\ n_done < Len(inp.vcfs)
  /\ inp.vcfs[n_done + 1] = "other"
  /\ n_done' = n_done + 1
  /\ UNCHANGED <<pc, script, outvars, inp, fs, exit_code, s01vars, cmds,
                 errors, counts>>

\* split_vep_pipeline is called: tmpdir.mkdir(parents=True, exist_ok=True)
S04Pipeline ==
  /\ script = "s04"
  /\ pc = "loop"
  /\ n_done < Len(inp.vcfs)
  /\ inp.vcfs[n_done + 1] # "other"
  /\ fs' = fs \cup {"tmp_splitvep"}
  /\ pc' = Steps[1]
  /\ UNCHANGED <<script, outvars, inp, exit_code, s01vars, cmdvars>>

\* one command of split_vep_pipeline: if not run_command(cmd): return False;
\* a command that fails may have left its output file behind
S04Step ==
  /\ script = "s04"
  /\ pc \in Range(Steps)
  /\ LET k == StepOf(pc) IN
     \E ok \in BOOLEAN, written \in BOOLEAN :
       /\ ok => written
       /\ cmds' = Append(cmds, Cmd(pc, n_done + 1, TRUE, ok))
       /\ fs' = IF written
                THEN fs \cup {StepFile(pc, inp.vcfs[n_done + 1])}
                ELSE fs
       /\ IF ok
          THEN /\ pc' = IF k < Len(Steps) THEN Steps[k + 1] ELSE "cleanup"
               /\ UNCHANGED errors
          ELSE /\ errors' = Append(errors, <<pc, n_done + 1>>)
               /\ pc' = "cleanup"
  /\ UNCHANGED <<script, outvars, inp, exit_code, s01vars, counts, n_done>>

\* the pipeline has returned: the counts are updated and
\* cleanup_temp_files(temp_files, keep_temp=args.keep_temp) is called
S04Cleanup_OnSuccess ==
  /\ script = "s04"
  /\ pc = "cleanup"
  /\ counts' = IF cmds[Len(cmds)].ok THEN <<counts[1] + 1, counts[2]>>
               ELSE <<counts[1], counts[2] + 1>>
  /\ fs' = IF inp.keep_temp \/ ~cmds[Len(cmds)].ok THEN fs
           ELSE fs \ TempFiles
  /\ n_done' = n_done + 1
  /\ pc' = "loop"
  /\ UNCHANGED <<script, outvars, inp, exit_code, s01vars, cmds, errors>>
S04Cleanup ==
  /\ script = "s04"
  /\ pc = "cleanup"
  /\ counts' = IF cmds[Len(cmds)].ok THEN <<counts[1] + 1, counts[2]>>
               ELSE <<counts[1], counts[2] + 1>>
  /\ fs' = IF inp.keep_temp THEN fs ELSE fs \ TempFiles
  /\ n_done' = n_done + 1
  /\ pc' = "loop"
  /\ UNCHANGED <<script, outvars, inp, exit_code, s01vars, cmds, errors>>

\* the loop is through: the totals are logged and main returns
S04Finish ==
  /\ script = "s04"
  /\ pc = "loop"
  /\ n_done = Len(inp.vcfs)
  /\ pc' = "end"
  /\ exit_code' = "0"
  /\ UNCHANGED <<script, outvars, inp, fs, s01vars, cmdvars>>

NextS04 ==
  \/ S04CheckInputDir
  \/ S04CheckEnv
  \/ S04LoadConfig
  \/ S04Collect
  \/ S04Skip
  \/ S04Pipeline
  \/ S04Step
  \/ S04Cleanup
  \/ S04Finish

(***************************************************************************)
(* A run of one of the scripts s02, s03, s04.                              *)
(***************************************************************************)
InitCmd == InitS02 \/ InitS03 \/ InitS04

NextCmd == NextS02 \/ NextS03 \/ NextS04

SpecCmd == InitCmd /\ [][NextCmd]_vars

(***************************************************************************)
(* utils.get_bcftools_version.                                             *)
(***************************************************************************)
\* the numbers of a version have at most MaxComponents components
MaxComponents == 3

\* min_version: str = "1.10"
min_version == <<"1", ".", "1", "0">>

\* the return values "unknown" and "invalid"
Unknown == <<"u", "n", "k", "n", "o", "w", "n">>
Invalid == <<"i", "n", "v", "a", "l", "i", "d">>

\* int(s) of a string of digits
RECURSIVE ParseInt(_)
ParseInt(s) ==
  IF s = <<>> THEN 0
  ELSE 10 * ParseInt(SubSeq(s, 1, Len(s) - 1)) + (Ord(s[Len(s)]) - Ord("0"))

\* v.split(".")
RECURSIVE Split(_)
Split(v) ==
  LET dots == {i \in 1..Len(v) : v[i] = "."} IN
  IF dots = {} THEN <<v>>
  ELSE <<SubSeq(v, 1, Min(dots) - 1)>>
         \o Split(SubSeq(v, Min(dots) + 1, Len(v)))

\* def ver_tuple(v): return tuple(map(int, v.split(".")))
ver_tuple(v) == [i \in 1..Len(Split(v)) |-> ParseInt(Split(v)[i])]

\* tuple < tuple, for tuples of int: the first components that differ
\* decide, and a proper prefix is lower
IntTupleLess_FirstOnly(a, b) == a[1] < b[1]
IntTupleLess(a, b) ==
  \E i \in 1..Len(b) :
    /\ i <= Len(a) + 1
    /\ \A j \in 1..(i - 1) : a[j] = b[j]
    /\ i = Len(a) + 1 \/ a[i] < b[i]

\* \d+(\.\d+)+ matched against the whole of s
IsVersion(s) ==
  /\ Len(Split(s)) >= 2
  /\ \A i \in 1..Len(Split(s)) : IsDigits(Split(s)[i])

\* re.search(r"bcftools (\d+(\.\d+)+)", stdout): group 1 of the leftmost
\* match, which is the longest from its start; <<>> when nothing matches
VersionSearch(stdout) ==
  LET word == <<"b", "c", "f", "t", "o", "o", "l", "s", " ">>
      ends(i) == {j \in i..Len(stdout) : IsVersion(SubSeq(stdout, i, j))}
      starts == {i \in (Len(word) + 1)..Len(stdout) :
                   /\ SubSeq(stdout, i - Len(word), i - 1) = word
                   /\ ends(i) # {}}
  IN IF starts = {} THEN <<>>
     ELSE LET i == Min(starts)
              j == CHOOSE e \in ends(i) : \A d \in ends(i) : d <= e
          IN SubSeq(stdout, i, j)

\* get_bcftools_version: result is what subprocess.run(..., check=True) of
\* "bcftools --version" gave, ok being FALSE for CalledProcessError
get_bcftools_version(result, min) ==
  IF ~result.ok THEN Unknown
  ELSE LET match == VersionSearch(result.stdout)
           version == IF match # <<>> THEN match ELSE Unknown
       IN IF version # Unknown
               /\ IntTupleLess(ver_tuple(version), ver_tuple(min))
          THEN Invalid
          ELSE version

\* the numbers bcftools may print as the components of its version
Components == {<<"0">>, <<"1">>, <<"2">>, <<"9">>, <<"1", "0">>}

\* "1.10" from <<"1", "10">>
RECURSIVE Dotted(_)
Dotted(parts) ==
  IF Len(parts) = 1 THEN parts[1]
  ELSE parts[1] \o <<".">> \o Dotted(Tail(parts))

VersionNumbers ==
  UNION {[1..n -> Components] : n \in 2..MaxComponents}

\* what follows the version in the output: nothing, the next line, a
\* revision, a stray dot
Suffixes == {<<>>, <<"\n", "U", "s", "i", "n", "g">>, <<"-", "5">>, <<".">>}

VersionLine(parts, suffix) ==
  <<"b", "c", "f", "t", "o", "o", "l", "s", " ">> \o Dotted(parts) \o suffix

\* outputs that hold no version of bcftools
NoVersion ==
  { <<>>,
    <<"b", "c", "f", "t", "o", "o", "l", "s">>,
    <<"b", "c", "f", "t", "o", "o", "l", "s", " ", "1">>,
    <<"b", "c", "f", "t", "o", "o", "l", "s", " ", "1", ".">>,
    <<"b", "c", "f", "t", "o", "o", "l", "s", " ", "v", "1", ".", "9">>,
    <<"h", "t", "s", "l", "i", "b", " ", "1", ".", "9">> }

\* versions 1.09, 01.10 and 1.11
ZeroPadded ==
  { <<"b", "c", "f", "t", "o", "o", "l", "s", " ", "1", ".", "0", "9">>,
    <<"b", "c", "f", "t", "o", "o", "l", "s", " ", "0", "1", ".", "1", "0">> }

NextMinor == <<"b", "c", "f", "t", "o", "o", "l", "s", " ", "1", ".", "1", "1">>

\* the outcomes of "conda run -n <env> bcftools --version"
VersionResults ==
  {[ok |-> FALSE, stdout |-> <<>>]}
    \cup {[ok |-> TRUE, stdout |-> o] :
            o \in NoVersion \cup ZeroPadded \cup {NextMinor}}
    \cup {[ok |-> TRUE, stdout |-> VersionLine(parts, suffix)] :
            parts \in VersionNumbers, suffix \in Suffixes}

InitVersion ==
  /\ script = "utils"
  /\ \E r \in VersionResults : inp = [DefaultInput EXCEPT !.version = r]
  /\ fs = {}
  /\ exit_code = ""
  /\ NoCmds
  /\ NoOutput
  /\ pc = "get_bcftools_version"
  /\ NoScan

\* a call get_bcftools_version(conda_env); a version that is too old is
\* logged as an error
GetBcftoolsVersion ==
  /\ script = "utils"
  /\ pc = "get_bcftools_version"
  /\ bcftools_version' = get_bcftools_version(inp.version, min_version)
  /\ errors' = IF bcftools_version' = Invalid
               THEN Append(errors, <<"too old", 0>>)
               ELSE errors
  /\ pc' = "end"
  /\ UNCHANGED <<script, inp, fs, exit_code, s01vars, cmds, counts, n_done,
                 out_tsv>>

NextVersion == GetBcftoolsVersion

SpecVersion == InitVersion /\ [][NextVersion]_vars

(***************************************************************************)
(* s06_select_vep_cols.                                                    *)
(***************************************************************************)
\* the config names at most MaxFields fields, and bcftools query prints at
\* most MaxRows rows
MaxFields == 2
MaxRows == 2

\* the VEP columns a config may select
FieldNames == {"SYMBOL", "IMPACT", "Consequence"}

FieldLists == UNION {[1..n -> FieldNames] : n \in 0..MaxFields}

\* "\t".join(fields): a line is the sequence of its fields and tabs
RECURSIVE TabJoin(_)
TabJoin(fields) ==
  IF fields = <<>> THEN <<>>
  ELSE IF Len(fields) = 1 THEN <<fields[1]>>
  ELSE <<fields[1], "\t">> \o TabJoin(Tail(fields))

\* a line bcftools query prints for a record: one value for each field
Row(fields) == TabJoin([i \in 1..Len(fields) |-> "value"])

\* s6_select_vep_cols.tsv as an earlier run with other fields left it
OldTsv == << <<"Gene">>, <<"value">> >>

\* conda_env = str(args.env) names an environment that exists or not; the
\* version command fails, or prints 1.9 or 1.10; the config loads or not;
\* "fields" of a loaded config is absent, empty, or a list of names
InitS06 ==
  /\ script = "s06"
  /\ \E e \in {"exists", "missing"},
        ver \in {[ok |-> FALSE, stdout |-> <<>>],
                 [ok |-> TRUE, stdout |-> VersionLine(<<<<"1">>, <<"9">>>>, <<>>)],
                 [ok |-> TRUE,
                  stdout |-> VersionLine(<<<<"1">>, <<"1", "0">>>>, <<>>)]},
        c \in {"unparsable", "parsed"}, fl \in FieldLists, v \in VcfLists :
       /\ e = "missing" => (~ver.ok /\ c = "parsed" /\ fl = <<>> /\ v = <<>>)
       /\ c = "unparsable" => fl = <<>>
       /\ inp = [DefaultInput EXCEPT
                   !.env = e, !.version = ver, !.config = c, !.fields = fl,
                   !.vcfs = v]
  /\ fs = {}
  /\ exit_code = ""
  /\ NoCmds
  /\ bcftools_version = <<>>
  /\ out_tsv \in {<<>>, OldTsv}
  /\ pc = "main"
  /\ NoScan

\* base_dir.mkdir(parents=True, exist_ok=True);
\* if not check_conda_env(conda_env): sys.exit(1)
S06CheckEnv ==
  /\ script = "s06"
  /\ pc = "main"
  /\ fs' = fs \cup {"base_dir"}
  /\ IF inp.env # "exists"
     THEN Exit1
     ELSE pc' = "setup" /\ UNCHANGED exit_code
  /\ UNCHANGED <<script, outvars, inp, s01vars, cmdvars>>

\* bcftools_version = get_bcftools_version(conda_env); log_dir.mkdir(
\* parents=True, exist_ok=True), which makes output_dir as well
S06Setup ==
  /\ script = "s06"
  /\ pc = "setup"
  /\ bcftools_version' = get_bcftools_version(inp.version, min_version)
  /\ errors' = IF bcftools_version' = Invalid
               THEN Append(errors, <<"too old", 0>>)
               ELSE errors
  /\ fs' = fs \cup LogFiles
  /\ pc' = "collect"
  /\ UNCHANGED <<script, inp, exit_code, s01vars, cmds, counts, n_done,
                 out_tsv>>

\* vcfs = [f for f in input_dir.glob("*filter_impact.vcf*") ...];
\* if not vcfs: sys.exit(1)
S06Collect ==
  /\ script = "s06"
  /\ pc = "collect"
  /\ IF inp.vcfs = <<>>
     THEN /\ errors' = Append(errors, <<"no VCF", 0>>)
          /\ Exit1
     ELSE /\ pc' = "loop"
          /\ UNCHANGED <<errors, exit_code>>
  /\ UNCHANGED <<script, outvars, inp, fs, s01vars, cmds, counts, n_done>>

\* a file that ends neither in filter_impact.vcf.gz nor in filter_impact.vcf
\* is skipped
S06Skip ==
  /\ script = "s06"
  /\ pc = "loop"
  /\ n_done < Len(inp.vcfs)
  /\ inp.vcfs[n_done + 1] = "other"
  /\ n_done' = n_done + 1
  /\ UNCHANGED <<pc, script, outvars, inp, fs, exit_code, s01vars, cmds,
                 errors, counts>>

\* select_columns is called: cfg = json.load(f), which nothing catches;
\* fields = cfg.get("fields", []); if not fields: return False
S06LoadFields ==
  /\ script = "s06"
  /\ pc = "loop"
  /\ n_done < Len(inp.vcfs)
  /\ inp.vcfs[n_done + 1] # "other"
  /\ IF inp.config # "parsed"
     THEN /\ Exit1
          /\ UNCHANGED <<errors, counts, n_done>>
     ELSE IF inp.fields = <<>>
     THEN /\ errors' = Append(errors, <<"no fields", n_done + 1>>)
          /\ counts' = <<counts[1], counts[2] + 1>>
          /\ n_done' = n_done + 1
          /\ UNCHANGED <<pc, exit_code>>
     ELSE /\ pc' = "write_header"
          /\ UNCHANGED <<exit_code, errors, counts, n_done>>
  /\ UNCHANGED <<script, outvars, inp, fs, s01vars, cmds>>

\* with open(out_tsv, "w") as out: out.write(header + "\n")
S06WriteHeader_Append ==
  /\ script = "s06"
  /\ pc = "write_header"
  /\ out_tsv' = Append(out_tsv, TabJoin(inp.fields))
  /\ fs' = fs \cup {"s6_select_vep_cols.tsv"}
  /\ pc' = "query"
  /\ UNCHANGED <<script, bcftools_version, inp, exit_code, s01vars, cmdvars>>
S06WriteHeader ==
  /\ script = "s06"
  /\ pc = "write_header"
  /\ out_tsv' = <<TabJoin(inp.fields)>>
  /\ fs' = fs \cup {"s6_select_vep_cols.tsv"}
  /\ pc' = "query"
  /\ UNCHANGED <<script, bcftools_version, inp, exit_code, s01vars, cmdvars>>

\* subprocess.run(cmd, stdout=open(out_tsv, "a"), ...): bcftools appends the
\* rows it prints, whether it then fails or not; the function returns
\* result.returncode == 0, which main counts
S06Query ==
  /\ script = "s06"
  /\ pc = "query"
  /\ \E ok \in BOOLEAN, n \in 0..MaxRows :
       /\ cmds' = Append(cmds, Cmd("query", n_done + 1, TRUE, ok))
       /\ out_tsv' = out_tsv \o [i \in 1..n |-> Row(inp.fields)]
       /\ IF ok
          THEN /\ counts' = <<counts[1] + 1, counts[2]>>
               /\ UNCHANGED errors
          ELSE /\ counts' = <<counts[1], counts[2] + 1>>
               /\ errors' = Append(errors, <<"query", n_done + 1>>)
  /\ n_done' = n_done + 1
  /\ pc' = "loop"
  /\ UNCHANGED <<script, bcftools_version, inp, fs, exit_code, s01vars>>

\* the loop is through: the totals are logged and main returns
S06Finish ==
  /\ script = "s06"
  /\ pc = "loop"
  /\ n_done = Len(inp.vcfs)
  /\ pc' = "end"
  /\ exit_code' = "0"
  /\ UNCHANGED <<script, outvars, inp, fs, s01vars, cmdvars>>

NextS06 ==
  \/ S06CheckEnv
  \/ S06Setup
  \/ S06Collect
  \/ S06Skip
  \/ S06LoadFields
  \/ S06WriteHeader
  \/ S06Query
  \/ S06Finish

SpecS06 == InitS06 /\ [][NextS06]_vars

(***************************************************************************)
(* Vocabulary of the properties.                                           *)
(***************************************************************************)
Finished == pc \in {"write_csv", "totals", "end"}

\* the readings of a file name as a first mate under the first convention
\* that reads it so
Reading(name) ==
  { p \in Parts :
      /\ FileName(p, 1) = name
      /\ \A o \in Parts : FileName(o, 1) = name => p.conv <= o.conv }

ExpectedLane(p) == IF p.lane = <<>> THEN <<"1">> ELSE p.lane

\* the pairs whose first mate is the file at path
PairsOf(path) == {i \in 1..Len(samples) : samples[i][3] = path}

Count(s, x) == Cardinality({i \in 1..Len(s) : s[i] = x})

\* the data rows of the manifest
DataRows == Tail(manifest)

\* the value of a digit string
RECURSIVE Number(_)
Number(s) ==
  IF s = <<>> THEN 0
  ELSE 10 * Number(SubSeq(s, 1, Len(s) - 1)) + (Ord(s[Len(s)]) - Ord("0"))

(***************************************************************************)
(* C1: for every directory holding a first-mate file and its second-mate   *)
(* file, the finished scan holds exactly one pair for the first mate, with *)
(* the sample name and the lane of the file name, and the first mate is    *)
(* not reported unmatched.                                                 *)
(***************************************************************************)
C1_OnePairPerMatePair ==
  Finished =>
    \A d \in Dirs, n \in UNION {Corpus[c] : c \in 1..Len(Corpus)} :
      \A p \in Reading(n) :
        (<<d, n>> \in tree /\ <<d, FileName(p, 2)>> \in tree) =>
          /\ Cardinality(PairsOf(Join(d, n))) = 1
          /\ \A i \in PairsOf(Join(d, n)) :
               /\ samples[i][1] = p.sample
               /\ samples[i][2] = ExpectedLane(p)
               /\ samples[i][4] = Join(d, FileName(p, 2))
          /\ n \in Range(unmatched_r1) =>
               \E e \in Dirs \ {d} : <<e, n>> \in tree

(***************************************************************************)
(* C2: every first-mate file whose second-mate file is not in its          *)
(* directory has exactly one entry in the unmatched list and no pair.      *)
(***************************************************************************)
C2_OrphanIsUnmatched ==
  Finished =>
    \A n \in UNION {Corpus[c] : c \in 1..Len(Corpus)} :
      \A p \in Reading(n) :
        LET orphanIn == {d \in Dirs : /\ <<d, n>> \in tree
                                      /\ <<d, FileName(p, 2)>> \notin tree}
        IN /\ \A d \in orphanIn : PairsOf(Join(d, n)) = {}
           /\ orphanIn # {} => Count(unmatched_r1, n) = Cardinality(orphanIn)

(***************************************************************************)
(* C3: the second-mate file name computed for a first-mate file is the     *)
(* first-mate name with the mate tag alone substituted, and the pair, if   *)
(* any, takes the mate from the directory of the first mate.               *)
(***************************************************************************)
C3_OnlyTheTagSubstituted ==
  matched =>
    /\ \E p \in Reading(f) : r2_file = FileName(p, 2)
    /\ \A i \in PairsOf(Join(root, f)) : samples[i][4] = Join(root, r2_file)

(***************************************************************************)
(* C4: the sample name of every pair is the first-mate file name without   *)
(* lane token, mate tag, ordinal block and extension.                      *)
(***************************************************************************)
C4_SampleNameStripped ==
  \A i \in 1..Len(samples) :
    \E d \in Dirs, p \in Parts :
      /\ p \in Reading(FileName(p, 1))
      /\ samples[i][3] = Join(d, FileName(p, 1))
      /\ samples[i][1] = p.sample

(***************************************************************************)
(* C5: the lane of every pair is the digit string of the _L<digits> token  *)
(* of the first-mate file name, a token being closed by "_" or ".", and    *)
(* "1" when the name has no such token; the two examples of the            *)
(* specification come out as stated.                                       *)
(***************************************************************************)
C5_LaneOfPair ==
  /\ \A i \in 1..Len(samples) :
       /\ \E d \in Dirs, p \in Parts : samples[i][3] = Join(d, FileName(p, 1))
       /\ \A d \in Dirs, p \in Parts :
            samples[i][3] = Join(d, FileName(p, 1)) =>
              samples[i][2] = ExpectedLane(p)
  /\ Finished =>
       \A d \in Dirs :
         /\ {<<d, <<"s", "a", "m", "p", "l", "e", "A", "_", "L", "0", "0", "1", "_", "R", "1", "_", "0", "0", "1", ".", "f", "a", "s", "t", "q", ".", "g", "z">>>>,
             <<d, <<"s", "a", "m", "p", "l", "e", "A", "_", "L", "0", "0", "1", "_", "R", "2", "_", "0", "0", "1", ".", "f", "a", "s", "t", "q", ".", "g", "z">>>>} \subseteq tree =>
              \E i \in 1..Len(samples) :
                samples[i] = <<<<"s", "a", "m", "p", "l", "e", "A">>, <<"0", "0", "1">>,
                               Join(d, <<"s", "a", "m", "p", "l", "e", "A", "_", "L", "0", "0", "1", "_", "R", "1", "_", "0", "0", "1", ".", "f", "a", "s", "t", "q", ".", "g", "z">>),
                               Join(d, <<"s", "a", "m", "p", "l", "e", "A", "_", "L", "0", "0", "1", "_", "R", "2", "_", "0", "0", "1", ".", "f", "a", "s", "t", "q", ".", "g", "z">>)>>
         /\ {<<d, <<"s", "a", "m", "p", "l", "e", "B", "_", "1", ".", "f", "q", ".", "g", "z">>>>, <<d, <<"s", "a", "m", "p", "l", "e", "B", "_", "2", ".", "f", "q", ".", "g", "z">>>>}
              \subseteq tree =>
              \E i \in 1..Len(samples) :
                samples[i] = <<<<"s", "a", "m", "p", "l", "e", "B">>, <<"1">>, Join(d, <<"s", "a", "m", "p", "l", "e", "B", "_", "1", ".", "f", "q", ".", "g", "z">>),
                               Join(d, <<"s", "a", "m", "p", "l", "e", "B", "_", "2", ".", "f", "q", ".", "g", "z">>)>>

\* both examples are in one directory and the scan has paired them
C5_Witness ==
  /\ pc = "end"
  /\ \E i, j \in 1..Len(samples) :
       /\ samples[i][3] = Join(RootDir, FileName(PartA, 1))
       /\ samples[i][2] = <<"0", "0", "1">>
       /\ samples[j][3] = Join(RootDir, FileName(PartB, 1))
       /\ samples[j][2] = <<"1">>

(***************************************************************************)
(* C6: the patient identifiers written by write_csv are exactly 1..N for   *)
(* N distinct sample names, a smaller name has a smaller identifier, and   *)
(* rows of one sample name carry one identifier.                           *)
(***************************************************************************)
C6_PatientIdsDense ==
  pc = "end" =>
    LET names == {samples[i][1] : i \in 1..Len(samples)} IN
    /\ {DataRows[i][1] : i \in 1..Len(DataRows)} = 1..Cardinality(names)
    /\ \A i, j \in 1..Len(DataRows) :
         /\ StrLess(DataRows[i][2], DataRows[j][2]) =>
              DataRows[i][1] < DataRows[j][1]
         /\ DataRows[i][2] = DataRows[j][2] => DataRows[i][1] = DataRows[j][1]

\* three pairs of two samples, the greater name given first
C6_Witness ==
  /\ pc = "end"
  /\ Len(samples) = 3
  /\ StrLess(samples[2][1], samples[1][1])
  /\ samples[3][1] = samples[1][1]
  /\ DataRows[1][1] = 1
  /\ DataRows[3][1] = 2

(***************************************************************************)
(* C7: the manifest is the header row and then exactly one row for each    *)
(* pair of the scan, the patient column of a row being the rank of its     *)
(* sample name among the distinct sample names; without pairs the manifest *)
(* is written and holds the header alone.                                  *)
(***************************************************************************)
C7_OneRowPerPair ==
  pc = "end" =>
    LET names == {samples[i][1] : i \in 1..Len(samples)}
        patient(n) == Cardinality({m \in names : m = n \/ StrLess(m, n)})
    IN /\ Len(manifest) = 1 + Len(samples)
       /\ manifest[1] = Header
       /\ \A i \in 1..Len(samples) :
            Count(DataRows, <<patient(samples[i][1])>> \o samples[i])
              = Count(samples, samples[i])
       /\ \A i \in 1..Len(DataRows) :
            \E j \in 1..Len(samples) :
              DataRows[i] = <<patient(samples[j][1])>> \o samples[j]

\* two pairs of one sample have been written
C7_Witness ==
  /\ pc = "end"
  /\ Len(samples) = 2
  /\ samples[1][1] = samples[2][1]
  /\ Len(manifest) = 3

(***************************************************************************)
(* C8 as claimed: of two consecutive data rows the earlier has the smaller *)
(* sample name, or the same sample name and a lane that is not greater,    *)
(* the lanes taken as numbers.                                             *)
(***************************************************************************)
C8_RowsOrderedByLaneNumber ==
  pc = "end" =>
    \A i \in 1..(Len(DataRows) - 1) :
      \/ StrLess(DataRows[i][2], DataRows[i + 1][2])
      \/ /\ DataRows[i][2] = DataRows[i + 1][2]
         /\ Number(DataRows[i][3]) <= Number(DataRows[i + 1][3])

(***************************************************************************)
(* C8 amended: of two consecutive data rows the earlier has the smaller    *)
(* sample name, or the same sample name and a lane that is not greater     *)
(* when lanes are compared as strings, character by character (lane 10     *)
(* comes before lane 2).                                                   *)
(***************************************************************************)
C8_RowsOrderedByLaneString ==
  pc = "end" =>
    \A i \in 1..(Len(DataRows) - 1) :
      \/ StrLess(DataRows[i][2], DataRows[i + 1][2])
      \/ /\ DataRows[i][2] = DataRows[i + 1][2]
         /\ ~StrLess(DataRows[i + 1][3], DataRows[i][3])

\* lane 2 was found before lane 10 of the same sample and is written after it
C8_Witness ==
  /\ pc = "end"
  /\ Len(samples) = 2
  /\ samples[1][1] = samples[2][1]
  /\ samples[1][2] = <<"2">>
  /\ samples[2][2] = <<"1", "0">>
  /\ DataRows[1][3] = <<"1", "0">>
  /\ DataRows[2][3] = <<"2">>

(***************************************************************************)
(* C9: a second run over the unchanged tree writes the manifest the first  *)
(* run wrote, whatever the order in which either run was given the files.  *)
(***************************************************************************)
C9_SameManifest ==
  (run = 2 /\ pc = "end") => manifest = prev_manifest

\* the second run found its two pairs in the order opposite to the order of
\* the rows
C9_Witness ==
  /\ run = 2
  /\ pc = "end"
  /\ Len(samples) = 2
  /\ TupleLess(samples[2], samples[1])
  /\ manifest = prev_manifest

(***************************************************************************)
(* C10: both files of every pair are in the tree, in one directory, and    *)
(* no pair is made for a first mate whose computed second-mate path is not *)
(* in the tree.                                                            *)
(***************************************************************************)
C10_BothMatesExist ==
  /\ \A i \in 1..Len(samples) :
       \E a \in tree, b \in tree :
         /\ a[1] = b[1]
         /\ samples[i][3] = Join(a[1], a[2])
         /\ samples[i][4] = Join(b[1], b[2])
  /\ (matched /\ Join(root, r2_file) \notin FilePaths) =>
       PairsOf(Join(root, f)) = {}

\* a first mate was just left unpaired although the file its mate would be
\* is in the other directory
C10_Witness ==
  /\ matched
  /\ Join(root, r2_file) \notin FilePaths
  /\ \E e \in tree : e[1] # root /\ e[2] = r2_file
  /\ f \in Range(unmatched_r1)

(***************************************************************************)
(* C11: at every point of the scan and at its end, every file has at most  *)
(* one pair and a file not yet scanned has none; for every file name the   *)
(* entries of the unmatched list plus the pairs of files of that name are  *)
(* as many as the scanned files of that name that read as a first mate, so *)
(* no file is both unmatched and paired, and the pairs plus the unmatched  *)
(* entries are as many as the scanned first-mate files; both lists only    *)
(* grow during a scan, and a new pair is always for the file scanned in    *)
(* that step, so an unmatched file is never turned into a pair.            *)
(***************************************************************************)
C11_Records ==
  LET scanned == IF inp.dir = "readable" THEN tree \ todo ELSE {}
      names == {e[2] : e \in tree}
      pairsNamed(n) == {i \in 1..Len(samples) :
                          \E d \in Dirs : samples[i][3] = Join(d, n)}
  IN /\ \A e \in tree :
          /\ Cardinality(PairsOf(Join(e[1], e[2]))) <= 1
          /\ e \in todo => PairsOf(Join(e[1], e[2])) = {}
     /\ \A n \in names :
          Count(unmatched_r1, n) + Cardinality(pairsNamed(n))
            = Cardinality({e \in scanned : e[2] = n /\ Reading(n) # {}})
     /\ Len(samples) + Len(unmatched_r1)
          = Cardinality({e \in scanned : Reading(e[2]) # {}})

C11_Grows ==
  run' = run =>
    /\ Len(unmatched_r1') >= Len(unmatched_r1)
    /\ SubSeq(unmatched_r1', 1, Len(unmatched_r1)) = unmatched_r1
    /\ Len(samples') >= Len(samples)
    /\ SubSeq(samples', 1, Len(samples)) = samples
    /\ \A i \in (Len(samples) + 1)..Len(samples') :
         \E e \in todo \ todo' : samples'[i][3] = Join(e[1], e[2])

C11_OneRecordPerFile == [](C11_Records) /\ [][C11_Grows]_vars

\* the scan has ended with a file name that is unmatched in one directory
\* and paired in the other
C11_Witness ==
  /\ pc = "end"
  /\ \E n \in Range(unmatched_r1) :
       \E i \in 1..Len(samples), d \in Dirs : samples[i][3] = Join(d, n)

(***************************************************************************)
(* C12: when the scan classifies a file whose name holds _1. or _R1.       *)
(* before a fastq extension but does not read as a first mate, it logs the *)
(* look-alike warning and nothing else: the pairs and the unmatched list   *)
(* stay as they were, and the scan goes on with the files that are left.   *)
(***************************************************************************)
Contains(s, t) ==
  \E i \in 1..(Len(s) - Len(t) + 1) : SubSeq(s, i, i + Len(t) - 1) = t

ResemblesFirstMate(n) ==
  /\ Reading(n) = {}
  /\ \E t \in {<<"_", "1", ".", "f", "q">>, <<"_", "1", ".", "f", "a", "s", "t", "q">>,
               <<"_", "R", "1", ".", "f", "q">>,
               <<"_", "R", "1", ".", "f", "a", "s", "t", "q">>} : Contains(n, t)

C12_WarnedAndSkipped ==
  [][(pc = "collect_samples" /\ todo' # todo /\ run' = run
        /\ ResemblesFirstMate(f')) =>
       /\ samples' = samples
       /\ unmatched_r1' = unmatched_r1
       /\ warnings' = Append(warnings, <<"looks like R1", f'>>)
       /\ pc' = "collect_samples"
       /\ todo' = todo \ {<<root', f'>>}]_vars

\* the scan warned about the bzip2 file, went on to a first mate without
\* mate and ended
C12_Witness ==
  /\ pc = "end"
  /\ <<"looks like R1", Bzip2Read>> \in Range(warnings)
  /\ f # Bzip2Read
  /\ Bzip2Read \notin Range(unmatched_r1)
  /\ unmatched_r1 = <<f>>
  /\ samples = <<>>

(***************************************************************************)
(* C13: classifying a second-mate file or an unrelated file leaves the     *)
(* pairs and the unmatched list as they were; a second-mate file is never  *)
(* the first mate of a pair and never in the unmatched list, whether its   *)
(* first mate is in the tree or not.                                       *)
(***************************************************************************)
\* the names that are the second mate of a first-mate name
SecondMateNames ==
  {FileName(p, 2) : p \in {q \in Parts : q \in Reading(FileName(q, 1))}}

C13_SecondMatesIgnored ==
  /\ [](\A n \in SecondMateNames :
          /\ n \notin Range(unmatched_r1)
          /\ \A d \in Dirs : PairsOf(Join(d, n)) = {})
  /\ [][(pc = "collect_samples" /\ todo' # todo /\ run' = run
           /\ f' \in SecondMateNames \cup {Unrelated}) =>
          /\ samples' = samples
          /\ unmatched_r1' = unmatched_r1]_vars

(***************************************************************************)
(* C14: when fastq_dir is no directory, s01 never gets past its first      *)
(* check: it makes no output directory, no log directory and no log file,  *)
(* writes no manifest, never starts the scan, and exits with status 1.     *)
(***************************************************************************)
C14_AbortsBeforeWriting ==
  /\ [](inp.dir = "missing" =>
          /\ pc \in {"main", "exit"}
          /\ manifest = <<>>
          /\ samples = <<>> /\ unmatched_r1 = <<>> /\ warnings = <<>>
          /\ f = <<>>
          /\ pc = "exit" => exit_code = "1")
  /\ [][inp.dir = "missing" => fs' = fs]_vars

\* s01 has exited with status 1 and there is still no output directory
C14_Witness ==
  /\ script = "s01"
  /\ inp.dir = "missing"
  /\ pc = "exit"
  /\ exit_code = "1"
  /\ fs = {}

(***************************************************************************)
(* C15: when fastq_dir is missing or cannot be read, s01 writes no         *)
(* manifest and does not run to its end: it exits with status 1.           *)
(***************************************************************************)
C15_UnreadableIsFatal ==
  (script = "s01" /\ inp.dir \in {"missing", "unreadable"}) =>
    /\ manifest = <<>>
    /\ pc # "end"
    /\ exit_code \in {"", "1"}

(***************************************************************************)
(* C16: over a readable tree, each step of the scan classifies exactly one *)
(* file that was not classified before and leaves the scan running,        *)
(* whatever the outcome for the file; the scan is left only when no file   *)
(* remains; while files remain, one of them is in a directory the walk is  *)
(* at, so the scan has a next file to take; a run that reaches its end has *)
(* written the manifest and has exit status 0, unmatched first mates or    *)
(* not.                                                                    *)
(***************************************************************************)
C16_ScanRunsToTheEnd ==
  /\ [](inp.dir = "readable" =>
          /\ pc \in {"write_csv", "totals", "end"} => todo = {}
          /\ (pc = "collect_samples" /\ todo # {}) =>
               \E e \in todo : e[1] \in WalkRoots
          /\ pc = "end" =>
               /\ exit_code = "0"
               /\ Len(manifest) = 1 + Len(samples))
  /\ [][(inp.dir = "readable" /\ run' = run /\ todo' # todo) =>
          /\ pc = "collect_samples"
          /\ pc' = "collect_samples"
          /\ <<root', f'>> \in todo
          /\ todo' = todo \ {<<root', f'>>}]_vars

\* a run over four files has ended with status 0, a pair, an unmatched first
\* mate and the manifest
C16_Witness ==
  /\ inp.dir = "readable"
  /\ pc = "end"
  /\ exit_code = "0"
  /\ Cardinality(tree) = 4
  /\ todo = {}
  /\ Len(unmatched_r1) >= 1
  /\ Len(samples) >= 1
  /\ Len(manifest) = 1 + Len(samples)

(***************************************************************************)
(* C17 as claimed: in s02, s03 and s04 a failed external command is        *)
(* reported and is the last command the run invokes, and the process ends  *)
(* with status 1.                                                          *)
(***************************************************************************)
FailedCmds == {k \in 1..Len(cmds) : ~cmds[k].ok}

ChecksPass ==
  /\ inp.config = "parsed"
  /\ required \subseteq inp.keys
  /\ inp.input_file
  /\ inp.env # "missing"

C19_SystemBcftools ==
  (script = "s03" /\ inp.env = "none" /\ inp.dir = "readable"
     /\ inp.vcfs # <<>>) =>
    /\ \A k \in 1..Len(cmds) : ~cmds[k].conda_run
    /\ pc # "exit"
    /\ pc = "end" =>
         \A n \in 1..Len(inp.vcfs) :
           inp.vcfs[n] # "other" =>
             \E k \in 1..Len(cmds) :
               cmds[k].tool = "view" /\ cmds[k].input = n

(***************************************************************************)
(* C20: when get_bcftools_version gives "invalid" for the environment of   *)
(* s04, no +split-vep command is invoked for any input VCF.                *)
(***************************************************************************)
C20_InvalidVersionStops ==
  (script = "s04" /\ inp.version = "invalid") =>
    \A k \in 1..Len(cmds) : cmds[k].tool # "+split-vep"

(***************************************************************************)
(* C21: when s04 has finished with an input VCF, the first-split VCF, the  *)
(* no-CSQ VCF and the tmp_splitvep directory are gone unless --keep-temp   *)
(* was given, and with --keep-temp none of them is removed; the pipeline   *)
(* may have succeeded or failed at any of its steps.                       *)
(***************************************************************************)
\* the inputs s04 has finished with, and the commands run for each
S04Inputs == {n \in 1..n_done : inp.vcfs[n] # "other"}

C21_Removal ==
  (script = "s04" /\ pc = "cleanup" /\ pc' = "loop")
    => /\ fs' \ TempFiles = fs \ TempFiles
       /\ IF inp.keep_temp
          THEN fs' \cap TempFiles = fs \cap TempFiles
          ELSE fs' \cap TempFiles = {}

C21_AfterEachInput ==
  (script = "s04" /\ pc \in {"loop", "end"})
    => IF inp.keep_temp
       THEN /\ S04Inputs # {} => "tmp_splitvep" \in fs
            /\ \A k \in 1..Len(cmds) :
                 (cmds[k].ok /\ cmds[k].tool \in {"+split-vep", "annotate"})
                   => StepFile(cmds[k].tool, "vcf.gz") \in fs
       ELSE fs \cap TempFiles = {}

C21_TempFilesRemoved == [](C21_AfterEachInput) /\ [][C21_Removal]_vars

\* an input failed at its third command, the next one went through, and
\* nothing of the temporary files is left
C21_Witness ==
  /\ script = "s04"
  /\ pc = "end"
  /\ ~inp.keep_temp
  /\ \E k \in 1..Len(cmds) :
       cmds[k].tool = "view" /\ ~cmds[k].ok /\ cmds[k].input = 1
  /\ counts = <<1, 1>>
  /\ fs \cap TempFiles = {}

(***************************************************************************)
(* C22: split_vep_pipeline runs split-vep, remove CSQ (annotate), keep     *)
(* canonical (view) and index in this order, each at most once and each    *)
(* only right after the success of the one before it, so that nothing runs *)
(* after a failed step; it returns success, which main counts, if and only *)
(* if all four succeeded.                                                  *)
(***************************************************************************)
PipelineOrder == <<"+split-vep", "annotate", "view", "index">>

\* the commands of input n up to the k-th command
CmdsUpTo(n, k) == {j \in 1..k : cmds[j].input = n}

\* the inputs whose four commands all succeeded
AllFourOk ==
  {n \in S04Inputs :
     Cardinality({j \in CmdsUpTo(n, Len(cmds)) : cmds[j].ok}) = 4}

C22_PipelineInOrder ==
  script = "s04" =>
    /\ \A k \in 1..Len(cmds) :
         LET j == Cardinality(CmdsUpTo(cmds[k].input, k)) IN
           /\ j <= 4
           /\ cmds[k].tool = PipelineOrder[j]
           /\ j > 1 => /\ cmds[k - 1].input = cmds[k].input
                       /\ cmds[k - 1].ok
    /\ pc \in {"loop", "end"} =>
         /\ counts[1] = Cardinality(AllFourOk)
         /\ counts[2] = Cardinality(S04Inputs \ AllFourOk)

\* one input went through all four commands, the next failed at the second
C22_Witness ==
  /\ script = "s04"
  /\ pc = "end"
  /\ Len(cmds) = 6
  /\ \A k \in 1..4 : cmds[k].ok /\ cmds[k].input = 1
  /\ cmds[5].ok /\ ~cmds[6].ok
  /\ counts = <<1, 1>>

(***************************************************************************)
(* C23: the first-mate patterns are tried in the order _1, _R1 and the     *)
(* first match wins.  For a file whose name matches both, the second-mate  *)
(* name is made by the _1 to _2 substitution only; the file gives exactly  *)
(* one record, a pair with that second mate or, when that second mate does *)
(* not exist, an unmatched entry, whether the second mate of the _R1 rule  *)
(* exists or not.                                                          *)
(***************************************************************************)
\* the readings of a name as a first mate of convention 1 and of convention 2
ReadingsBoth(name) ==
  {pq \in Parts \X Parts :
     /\ pq[1].conv = 1 /\ FileName(pq[1], 1) = name
     /\ pq[2].conv = 2 /\ FileName(pq[2], 1) = name}

C23_Step ==
  (pc = "collect_samples" /\ todo' # todo) =>
    \A pq \in ReadingsBoth(f') :
      LET mate == FileName(pq[1], 2) IN
        /\ r2_file' = mate
        /\ IF <<root', mate>> \in tree
           THEN /\ Len(samples') = Len(samples) + 1
                /\ samples'[Len(samples')][3] = Join(root', f')
                /\ samples'[Len(samples')][4] = Join(root', mate)
                /\ SubSeq(samples', 1, Len(samples)) = samples
                /\ unmatched_r1' = unmatched_r1
           ELSE /\ unmatched_r1' = Append(unmatched_r1, f')
                /\ samples' = samples

C23_FirstPatternWins == [][C23_Step]_vars

\* x_R1_1.fq is scanned while x_R2_1.fq, its mate under the _R1 rule, lies
\* next to it and x_R1_2.fq does not: the file is unmatched
C23_Witness ==
  /\ pc = "collect_samples"
  /\ ReadingsBoth(f) # {}
  /\ \E pq \in ReadingsBoth(f) :
       /\ <<root, FileName(pq[2], 2)>> \in tree
       /\ <<root, FileName(pq[1], 2)>> \notin tree
  /\ unmatched_r1 = <<f>>
  /\ samples = <<>>

(***************************************************************************)
(* C24 as claimed: once s02 has made the temporary Nextflow config, the    *)
(* file exists at the end of the script if and only if the nextflow        *)
(* command failed: after a successful run it is deleted, after a failed    *)
(* run it is left and the exit status is 1.                                *)
(***************************************************************************)
\* s02 has ended after it made the temporary config
EndedWithConfigMade ==
  script = "s02" /\ pc \in {"end", "exit"} /\ ChecksPass

NextflowFailed == cmds # <<>> /\ ~cmds[Len(cmds)].ok
NextflowSucceeded == cmds # <<>> /\ cmds[Len(cmds)].ok

C24_LeftIffNextflowFailed ==
  EndedWithConfigMade =>
    /\ "tmp_config" \in fs <=> NextflowFailed
    /\ NextflowFailed => exit_code = "1"

(***************************************************************************)
(* C24 amended: once s02 has made the temporary Nextflow config, the file  *)
(* exists until the nextflow command has succeeded, and at the end of the  *)
(* script it exists if and only if nextflow did not succeed.  It is        *)
(* deleted after a successful run, whose exit status is 0; it is left,     *)
(* with exit status 1, after a failed run and also when the command could  *)
(* not be built from the values of the config, in which case nextflow was  *)
(* never invoked.                                                          *)
(***************************************************************************)
C24_LeftIffNotSucceeded ==
  /\ (script = "s02" /\ pc \in {"build", "run", "unlink"})
       => "tmp_config" \in fs
  /\ EndedWithConfigMade =>
       /\ "tmp_config" \in fs <=> ~NextflowSucceeded
       /\ NextflowSucceeded => (pc = "end" /\ exit_code = "0")
       /\ ~NextflowSucceeded => (pc = "exit" /\ exit_code = "1")
       /\ cmds = <<>> <=> ~inp.shapes

\* nextflow ran in its conda environment and succeeded, and the temporary
\* config is gone at the end
C24_Witness ==
  /\ script = "s02"
  /\ pc = "end"
  /\ inp.env = "exists"
  /\ NextflowSucceeded
  /\ "tmp_config" \notin fs
  /\ LogFiles \subseteq fs

(***************************************************************************)
(* C25: filter_vcf_bcftools invokes bcftools index only right after the    *)
(* PASS-filter view command of the same input has succeeded, and only for  *)
(* a gzip-compressed output; after a failed view nothing is invoked for    *)
(* the input.  It returns True, which main counts as a success, if and     *)
(* only if every command it invoked succeeded.                             *)
(***************************************************************************)
\* the inputs s03 has finished with, and those whose commands all succeeded
S03Inputs == {n \in 1..n_done : inp.vcfs[n] # "other"}

S03AllOk ==
  {n \in S03Inputs : \A k \in 1..Len(cmds) : cmds[k].input = n => cmds[k].ok}

C25_IndexAfterView ==
  script = "s03" =>
    /\ \A k \in 1..Len(cmds) :
         /\ cmds[k].tool \in {"view", "index"}
         /\ cmds[k].tool = "index" =>
              /\ k > 1
              /\ cmds[k - 1].tool = "view"
              /\ cmds[k - 1].input = cmds[k].input
              /\ cmds[k - 1].ok
              /\ inp.vcfs[cmds[k].input] = "vcf.gz"
         /\ cmds[k].tool = "view" =>
              \A j \in 1..(k - 1) : cmds[j].input # cmds[k].input
    /\ pc \in {"loop", "end"} =>
         /\ \A n \in S03Inputs : \E k \in 1..Len(cmds) : cmds[k].input = n
         /\ counts[1] = Cardinality(S03AllOk)
         /\ counts[2] = Cardinality(S03Inputs \ S03AllOk)

\* a gzipped input was filtered and indexed, a plain one was filtered and not
\* indexed, and both count as successes
C25_Witness ==
  /\ script = "s03"
  /\ pc = "end"
  /\ inp.vcfs = <<"vcf.gz", "vcf">>
  /\ Len(cmds) = 3
  /\ cmds[2].tool = "index"
  /\ cmds[3].tool = "view"
  /\ counts = <<2, 0>>

(***************************************************************************)
(* C26: get_bcftools_version returns "unknown" when the version command    *)
(* fails or its output holds no version; it returns "invalid" exactly when *)
(* the version of the output is lower than 1.10, the numbers between the   *)
(* dots being compared as integers from the left (1.9 is lower than 1.10,  *)
(* 1.10 is not); in every other case it returns the version as printed.    *)
(***************************************************************************)
\* the version is lower than 1.10: its first number is 0, or it is 1 and the
\* second number is below 10
LowerThanMin(parts) ==
  \/ Number(parts[1]) < 1
  \/ Number(parts[1]) = 1 /\ Number(parts[2]) < 10

C26_VersionVerdict ==
  (script = "utils" /\ pc = "end") =>
    /\ ~inp.version.ok => bcftools_version = Unknown
    /\ (inp.version.ok /\ inp.version.stdout \in NoVersion)
         => bcftools_version = Unknown
    /\ \A parts \in VersionNumbers, suffix \in Suffixes :
         (inp.version.ok /\ inp.version.stdout = VersionLine(parts, suffix))
           => bcftools_version =
                IF LowerThanMin(parts) THEN Invalid ELSE Dotted(parts)
    /\ (inp.version.ok /\ inp.version.stdout \in ZeroPadded)
         => bcftools_version =
              IF inp.version.stdout[11] = "."
              THEN Invalid
              ELSE SubSeq(inp.version.stdout, 10, 14)
    /\ (inp.version.ok /\ inp.version.stdout = NextMinor)
         => bcftools_version = <<"1", ".", "1", "1">>
    /\ bcftools_version = Invalid <=>
         errors = <<<<"too old", 0>>>>

\* bcftools 1.9 is found too old
C26_Witness ==
  /\ script = "utils"
  /\ pc = "end"
  /\ inp.version.ok
  /\ inp.version.stdout =
       VersionLine(<<<<"1">>, <<"9">>>>, <<"\n", "U", "s", "i", "n", "g">>)
  /\ bcftools_version = Invalid

(***************************************************************************)
(* C27: when the config defines no fields, select_columns returns False,   *)
(* which main counts as a failure, neither creating nor changing the       *)
(* output file and without invoking bcftools.  Otherwise the header, the   *)
(* fields in the order of the config, is the only line of the file when    *)
(* bcftools is invoked and stays its first line, no later line being a     *)
(* header; and the function returns True if and only if bcftools query     *)
(* exits with status 0.                                                    *)
(***************************************************************************)
\* the line lists the fields of the config in their order
ListsFields(line) ==
  /\ Len(line) = 2 * Len(inp.fields) - 1
  /\ \A i \in 1..Len(inp.fields) : line[2 * i - 1] = inp.fields[i]
  /\ \A i \in 1..(Len(inp.fields) - 1) : line[2 * i] = "\t"

\* the inputs select_columns has returned for
S06Inputs == {n \in 1..n_done : inp.vcfs[n] # "other"}

C27_State ==
  (script = "s06" /\ inp.config = "parsed") =>
    /\ inp.fields = <<>> =>
         /\ cmds = <<>>
         /\ counts = <<0, Cardinality(S06Inputs)>>
    /\ inp.fields # <<>> =>
         /\ pc = "query" => (Len(out_tsv) = 1 /\ ListsFields(out_tsv[1]))
         /\ S06Inputs # {} =>
              /\ ListsFields(out_tsv[1])
              /\ \A i \in 2..Len(out_tsv) : ~ListsFields(out_tsv[i])
         /\ pc \in {"loop", "end"} =>
              /\ Len(cmds) = Cardinality(S06Inputs)
              /\ counts[1] = Cardinality({k \in 1..Len(cmds) : cmds[k].ok})
              /\ counts[2] = Cardinality({k \in 1..Len(cmds) : ~cmds[k].ok})

C27_Step ==
  script = "s06" =>
    /\ inp.fields = <<>> => out_tsv' = out_tsv
    /\ cmds' # cmds => (Len(out_tsv) = 1 /\ ListsFields(out_tsv[1]))

C27_HeaderThenQuery == [](C27_State) /\ [][C27_Step]_vars

\* the output of an earlier run was there; the query of the first input
\* failed after one row, the query of the second printed two rows, and the
\* file is the header and these two rows
C27_Witness ==
  /\ script = "s06"
  /\ pc = "end"
  /\ Len(inp.fields) = 2
  /\ inp.fields[1] # inp.fields[2]
  /\ Len(cmds) = 2
  /\ ~cmds[1].ok /\ cmds[2].ok
  /\ counts = <<1, 1>>
  /\ Len(out_tsv) = 3
  /\ ListsFields(out_tsv[1])

(***************************************************************************)
(* C28 as claimed: among the pairs of one scan every file path occurs at   *)
(* most once in the fastq_1 and fastq_2 fields: no second mate belongs to  *)
(* two pairs, no file is the first mate of one pair and the second mate of *)
(* another, and the two paths of a pair differ.                            *)
(***************************************************************************)
C28_EachPathOnce ==
  \A i \in 1..Len(samples) :
    /\ samples[i][3] # samples[i][4]
    /\ \A j \in 1..Len(samples) :
         i # j => {samples[i][3], samples[i][4]}
                    \cap {samples[j][3], samples[j][4]} = {}

(***************************************************************************)
(* C29 as claimed: in one run of s03 the inputs that bcftools view is run  *)
(* for are written to different output files, so that the output of an     *)
(* input that went through is not overwritten for another input.           *)
(***************************************************************************)
C29_DistinctOutputs ==
  script = "s03" =>
    \A j \in 1..Len(cmds), k \in 1..Len(cmds) :
      (/\ j < k
       /\ cmds[j].tool = "view" /\ cmds[j].ok
       /\ cmds[k].tool = "view"
       /\ cmds[j].input # cmds[k].input)
        => S03Output(inp.vcfs[cmds[j].input])
             # S03Output(inp.vcfs[cmds[k].input])

====
